---- MODULE Spec2Model ----
(***************************************************************************)
(* Write-Audit-Publish flow of wap_flow.py.                                *)
(*                                                                         *)
(* One run of wap_with_bauplan against a catalog of branches.  The catalog *)
(* (bauplan client) and the transaction manager (prefect) are the two      *)
(* collaborators of the script; they are modelled by what the script       *)
(* observes of them:                                                       *)
(*   - a client call either raises, or returns a result which may carry    *)
(*     an error / unsuccessful status (import_data, merge_branch);         *)
(*   - every task runs in a child transaction of the flow's transaction;   *)
(*     the child is staged, with the task's hooks, when the task function  *)
(*     returns; a child that raised is rolled back before it is staged     *)
(*     and so runs no hook;  an exception leaving the with block rolls     *)
(*     the staged children back in reverse order; a normal exit commits    *)
(*     the children in order.                                              *)
(***************************************************************************)
EXTENDS Integers, Sequences, FiniteSets, TLC

\* ---------------------------------------------------------------- bounds
MaxNulls == 2        \* null count of the target column in the source files
MaxBranches == 2     \* branch names other than 'main' known to the catalog

\* ---------------------------------------------------------------- names
Main == "main"
NoValue == "None"    \* transaction.get of a key that was never set

BranchName(i) == "branch_" \o ToString(i)
Names == {Main} \cup {BranchName(i) : i \in 1..MaxBranches}

T_write == "source_to_iceberg_table"
T_audit == "run_quality_checks"
T_publish == "merge_branch"
Hook == "delete_branch_if_exists"
Tasks == {T_write, T_audit, T_publish}

\* ---------------------------------------------------------------- tables
\* the state of the target table on one ref: which rows it holds and how
\* many nulls its 'age' column has
NoTable == [rows |-> "none", nulls |-> 0]
OldTable == [rows |-> "old", nulls |-> 0]
EmptyTable == [rows |-> "empty", nulls |-> 0]
Ingested(n) == [rows |-> "new", nulls |-> n]

VARIABLES
    arg,          \* bauplan_ingestion_branch, the flow's argument
    nullsIn,      \* nulls of column 'age' in the files at source_s3_pattern
    branches,     \* the refs of the catalog
    tables,       \* ref -> state of the target table on that ref
    branches0,    \* the catalog when the flow started
    tables0,
    pc,           \* position of the flow
    state,        \* task -> "Pending" | "Completed" | "Failed"
    ret,          \* task -> what the task function returned
    children,     \* the child transactions of the flow's transaction
    ctx,          \* task -> value stored at 'bauplan_ingestion_branch'
    hooks,        \* hooks still to run in the current rollback / commit
    failed,       \* the task whose exception left the with block
    invoked,      \* tasks and hooks in the order they were invoked
    calls,        \* client calls in order, <<operation, ref>>
    hookReads,    \* what each hook invocation read from the transaction
    null_count,   \* what run_quality_checks saw, -1 before the scan
    created       \* create_branch of this run succeeded

vars == <<arg, nullsIn, branches, tables, branches0, tables0, pc, state, ret,
          children, ctx, hooks, failed, invoked, calls, hookReads,
          null_count, created>>

\* ---------------------------------------------------------------- helpers
Range(s) == {s[i] : i \in 1..Len(s)}

RECURSIVE Reverse(_)
Reverse(s) == IF s = <<>> THEN <<>> ELSE Append(Reverse(Tail(s)), Head(s))

RECURSIVE Filter(_, _)
Filter(s, keep) ==
    IF s = <<>> THEN <<>>
    ELSE IF Head(s) \in keep THEN <<Head(s)>> \o Filter(Tail(s), keep)
    ELSE Filter(Tail(s), keep)

First(s, x) == CHOOSE i \in 1..Len(s) : s[i] = x /\ \A j \in 1..(i-1) : s[j] # x
Ops(s) == {s[i][1] : i \in 1..Len(s)}

\* ---------------------------------------------------------------- client
HasBranch(refs, b) == b \in refs

\* create_branch(b, from_ref='main'): the new ref starts at main's HEAD
CreateBranch(tabs, b) == [tabs EXCEPT ![b] = tabs[Main]]

\* create_table(..., branch=b, replace=True)
CreateTableTarget(b) == b

\* import_data(..., branch=b)
ImportTargetMain(b) == Main
ImportTarget(b) == b

\* merge_branch(source_ref=b, into_branch='main')
Merge(tabs, b) == [tabs EXCEPT ![Main] = tabs[b]]

\* ---------------------------------------------------------------- hooks
\* registrations, lines 124-126
RollbackHookTasks == {T_write, T_audit}
CommitHookTasks == {T_publish}

\* get_transaction().set / transaction.get
TxnSetSkipsAudit(store, task, value) ==
    IF task = T_audit THEN store ELSE [store EXCEPT ![task] = value]
TxnSet(store, task, value) == [store EXCEPT ![task] = value]
TxnGet(store, task) == store[task]

\* the children whose hooks a rollback of the flow's transaction runs:
\* the staged ones (their task completed), last first
RollbackHooksAlsoFailed(kids, st) == Filter(Reverse(kids), RollbackHookTasks)
RollbackHooks(kids, st) ==
    Filter(Reverse(kids), {t \in RollbackHookTasks : st[t] = "Completed"})
CommitHooks(kids, st) ==
    Filter(kids, {t \in CommitHookTasks : st[t] = "Completed"})

\* the guard of delete_branch_if_exists
ShouldDeleteAlways(refs, b) == TRUE
ShouldDelete(refs, b) == HasBranch(refs, b)

\* ---------------------------------------------------------------- audit
QualityCheck(n) == n > 0

\* ---------------------------------------------------------------- flow
SuccessorPublishFirst(t) ==
    CASE t = T_write -> T_publish
      [] t = T_publish -> T_audit
      [] t = T_audit -> "commit"
Successor(t) ==
    CASE t = T_write -> T_audit
      [] t = T_audit -> T_publish
      [] t = T_publish -> "commit"

AfterIgnoresFailure(t, ok) == Successor(t)
After(t, ok) == IF ok THEN Successor(t) ELSE "rollback"

\* the end of a task run: its state, where the flow goes, the hooks to run
TaskEnd(t, ok, value) ==
    LET st == [state EXCEPT ![t] = IF ok THEN "Completed" ELSE "Failed"]
        kids == Append(children, t)
        next == After(t, ok)
    IN  /\ state' = st
        /\ ret' = [ret EXCEPT ![t] = value]
        /\ children' = kids
        /\ failed' = IF ok THEN failed ELSE t
        /\ pc' = next
        /\ hooks' = CASE next = "rollback" -> RollbackHooks(kids, st)
                      [] next = "commit" -> CommitHooks(kids, st)
                      [] OTHER -> <<>>

Init ==
    /\ arg \in Names
    /\ nullsIn \in 0..MaxNulls
    /\ branches \in {{Main} \cup s : s \in SUBSET (Names \ {Main})}
    /\ \E t \in {NoTable, OldTable} :
          tables = [b \in Names |-> IF b \in branches THEN t ELSE NoTable]
    /\ branches0 = branches
    /\ tables0 = tables
    /\ pc = T_write
    /\ state = [t \in Tasks |-> "Pending"]
    /\ ret = [t \in Tasks |-> "none"]
    /\ children = <<>>
    /\ ctx = [t \in Tasks |-> NoValue]
    /\ hooks = <<>>
    /\ failed = "none"
    /\ invoked = <<>>
    /\ calls = <<>>
    /\ hookReads = <<>>
    /\ null_count = -1
    /\ created = FALSE

\* what the client calls of source_to_iceberg_table can do, in call order
SourceOutcomes ==
    {"create_branch_raises", "create_table_raises", "import_data_raises",
     "import_data_error", "import_data_ok"}

source_to_iceberg_table ==
    /\ pc = T_write
    /\ invoked' = Append(invoked, T_write)
    /\ ctx' = TxnSet(ctx, T_write, arg)
    /\ UNCHANGED <<arg, nullsIn, branches0, tables0, hookReads, null_count>>
    /\ IF HasBranch(branches, arg)
       THEN \* raise ValueError("Branch already exists, ...")
            /\ calls' = Append(calls, <<"has_branch", arg>>)
            /\ UNCHANGED <<branches, tables, created>>
            /\ TaskEnd(T_write, FALSE, "none")
       ELSE \E o \in SourceOutcomes :
            LET c1 == calls \o <<<<"has_branch", arg>>, <<"create_branch", arg>>>>
                c2 == c1 \o <<<<"has_branch", arg>>,
                              <<"create_table", CreateTableTarget(arg)>>>>
                c3 == c2 \o <<<<"has_table", arg>>,
                              <<"import_data", ImportTarget(arg)>>>>
                t1 == CreateBranch(tables, arg)
                t2 == [t1 EXCEPT ![CreateTableTarget(arg)] = EmptyTable]
                t3 == [t2 EXCEPT ![ImportTarget(arg)] = Ingested(nullsIn)]
            IN  CASE o = "create_branch_raises" ->
                       /\ calls' = c1
                       /\ UNCHANGED <<branches, tables, created>>
                       /\ TaskEnd(T_write, FALSE, "none")
                  [] o = "create_table_raises" ->
                       /\ calls' = c2
                       /\ branches' = branches \cup {arg}
                       /\ tables' = t1
                       /\ created' = TRUE
                       /\ TaskEnd(T_write, FALSE, "none")
                  [] o = "import_data_raises" ->
                       /\ calls' = c3
                       /\ branches' = branches \cup {arg}
                       /\ tables' = t2
                       /\ created' = TRUE
                       /\ TaskEnd(T_write, FALSE, "none")
                  [] o = "import_data_error" ->
                       \* the result carries an error; it is returned as is
                       /\ calls' = c3
                       /\ branches' = branches \cup {arg}
                       /\ tables' = t2
                       /\ created' = TRUE
                       /\ TaskEnd(T_write, TRUE, "error")
                  [] o = "import_data_ok" ->
                       /\ calls' = c3
                       /\ branches' = branches \cup {arg}
                       /\ tables' = t3
                       /\ created' = TRUE
                       /\ TaskEnd(T_write, TRUE, "ok")

\* what the scan of run_quality_checks can do
ScanOutcomes == {"scan_raises", "scan_ok"}

run_quality_checks ==
    /\ pc = T_audit
    /\ invoked' = Append(invoked, T_audit)
    /\ ctx' = TxnSet(ctx, T_audit, arg)
    /\ calls' = Append(calls, <<"scan", arg>>)
    /\ UNCHANGED <<arg, nullsIn, branches, tables, branches0, tables0,
                   hookReads, created>>
    /\ \E o \in ScanOutcomes :
         IF o = "scan_raises"
         THEN /\ null_count' = null_count
              /\ TaskEnd(T_audit, FALSE, "none")
         ELSE LET wap_table == tables[arg]
              IN  /\ null_count' = wap_table.nulls
                  \* assert ..., "Quality check failed"; return True
                  /\ IF QualityCheck(wap_table.nulls)
                     THEN TaskEnd(T_audit, TRUE, "True")
                     ELSE TaskEnd(T_audit, FALSE, "none")

\* what the client's merge_branch can do
MergeOutcomes == {"merge_raises", "merge_error", "merge_ok"}

merge_branch ==
    /\ pc = T_publish
    /\ invoked' = Append(invoked, T_publish)
    /\ ctx' = TxnSet(ctx, T_publish, arg)
    /\ calls' = Append(calls, <<"merge_branch", arg>>)
    /\ UNCHANGED <<arg, nullsIn, branches, branches0, tables0, hookReads,
                   null_count, created>>
    /\ \E o \in MergeOutcomes :
         CASE o = "merge_raises" ->
                /\ tables' = tables
                /\ TaskEnd(T_publish, FALSE, "none")
           [] o = "merge_error" ->
                \* the unsuccessful result is returned as is
                /\ tables' = tables
                /\ TaskEnd(T_publish, TRUE, "error")
           [] o = "merge_ok" ->
                /\ tables' = Merge(tables, arg)
                /\ TaskEnd(T_publish, TRUE, "ok")

\* one hook invocation, for the transaction of the task at the head of hooks
delete_branch_if_exists ==
    /\ pc \in {"rollback", "commit"}
    /\ hooks # <<>>
    /\ LET ingestion_branch == TxnGet(ctx, Head(hooks))
       IN  /\ hookReads' = Append(hookReads, ingestion_branch)
           /\ IF ShouldDelete(branches, ingestion_branch)
              THEN /\ calls' = calls \o <<<<"has_branch", ingestion_branch>>,
                                          <<"delete_branch", ingestion_branch>>>>
                   /\ branches' = branches \ {ingestion_branch}
                   /\ tables' = [b \in Names |->
                                   IF b = ingestion_branch THEN NoTable
                                   ELSE tables[b]]
              ELSE /\ calls' = Append(calls, <<"has_branch", ingestion_branch>>)
                   /\ UNCHANGED <<branches, tables>>
    /\ invoked' = Append(invoked, Hook)
    /\ hooks' = Tail(hooks)
    /\ UNCHANGED <<arg, nullsIn, branches0, tables0, pc, state, ret, children,
                   ctx, failed, null_count, created>>

\* the with block is left: the flow returns, or the task's exception
\* propagates out of it
wap_with_bauplan_end ==
    /\ pc \in {"rollback", "commit"}
    /\ hooks = <<>>
    /\ pc' = "done"
    /\ UNCHANGED <<arg, nullsIn, branches, tables, branches0, tables0, state,
                   ret, children, ctx, hooks, failed, invoked, calls,
                   hookReads, null_count, created>>

Next ==
    \/ source_to_iceberg_table
    \/ run_quality_checks
    \/ merge_branch
    \/ delete_branch_if_exists
    \/ wap_with_bauplan_end

Spec == Init /\ [][Next]_vars

TypeOK ==
    /\ arg \in Names
    /\ branches \subseteq Names
    /\ pc \in Tasks \cup {"rollback", "commit", "done"}
    /\ \A t \in Tasks : state[t] \in {"Pending", "Completed", "Failed"}
    /\ failed \in Tasks \cup {"none"}
    /\ null_count \in -1..MaxNulls

\* ---------------------------------------------------------------- claims
DeleteCalls(c) == {i \in 1..Len(c) : c[i][1] = "delete_branch"}
Rank(x) ==
    CASE x = T_write -> 1
      [] x = T_audit -> 2
      [] x = T_publish -> 3
      [] x = Hook -> 4
FlowDone == pc = "done"
FlowSucceeded == pc = "done" /\ failed = "none"

\* C1: merge_branch is invoked only after run_quality_checks (and the write
\* before it) completed successfully in the same run; when
\* source_to_iceberg_table or run_quality_checks fails, there is no merge
\* call and 'main' keeps its contents.
C1_MergeOnlyAfterAudit ==
    /\ T_publish \in Range(invoked) =>
          /\ state[T_write] = "Completed"
          /\ state[T_audit] = "Completed"
          /\ First(invoked, T_audit) < First(invoked, T_publish)
    /\ failed \in {T_write, T_audit} =>
          /\ T_publish \notin Range(invoked)
          /\ "merge_branch" \notin Ops(calls)
          /\ tables[Main] = tables0[Main]
C1_Witness ==
    /\ T_publish \in Range(invoked)
    /\ "merge_branch" \in Ops(calls)
    /\ tables[Main] # tables0[Main]

\* C2: once the flow has ended, after a failure or after a successful merge,
\* the ingestion branch this run created is no longer in the catalog.
C2_BranchDeletedAtEnd == FlowDone /\ created => arg \notin branches

\* C3: run_quality_checks succeeds exactly when the scanned column has no
\* nulls, so data with nulls in that column never reaches 'main'.
C3_AuditPassesIffNoNulls ==
    /\ null_count >= 0 => (state[T_audit] = "Completed" <=> null_count = 0)
    /\ tables[Main] # tables0[Main] => tables[Main].nulls = 0

\* C4: a result of import_data or merge_branch that carries an error makes
\* the task fail: the flow does not go on and the transaction rolls back.
C4_ErrorResultFailsTask ==
    \A t \in {T_write, T_publish} :
        ret[t] = "error" =>
            /\ state[t] = "Failed"
            /\ failed = t
            /\ pc \in {"rollback", "done"}

\* C5: create_table and import_data target the ingestion branch only; as
\* long as merge_branch was not invoked 'main' is as it was at the start,
\* and so it is at the end of a flow that failed before the merge.
C5_WritesOnlyToBranch ==
    /\ \A i \in 1..Len(calls) :
          calls[i][1] \in {"create_table", "import_data"} =>
              calls[i][2] = arg /\ calls[i][2] # Main
    /\ "merge_branch" \notin Ops(calls) => tables[Main] = tables0[Main]
    /\ FlowDone /\ failed \in {T_write, T_audit} => tables[Main] = tables0[Main]
C5_Witness ==
    /\ "import_data" \in Ops(calls)
    /\ tables[arg] = Ingested(nullsIn)
    /\ tables[arg] # tables[Main]
    /\ "merge_branch" \notin Ops(calls)

\* C6: the steps run in the one order write, audit, publish, cleanup: each
\* task at most once and only after the earlier tasks completed, no task
\* after a failed one, hooks only once the with block is being left, and in
\* a run without failure delete_branch is called after merge_branch.
C6_LinearOrder ==
    /\ \A i, j \in 1..Len(invoked) :
          i < j => /\ Rank(invoked[i]) <= Rank(invoked[j])
                   /\ invoked[j] \in Tasks => Rank(invoked[i]) < Rank(invoked[j])
    /\ \A t \in Tasks \cap Range(invoked) :
          \A u \in Tasks : Rank(u) < Rank(t) => state[u] = "Completed"
    /\ failed # "none" =>
          \A t \in Tasks \cap Range(invoked) : Rank(t) <= Rank(failed)
    /\ Hook \in Range(invoked) => pc \in {"rollback", "commit", "done"}
    /\ failed = "none" /\ DeleteCalls(calls) # {} =>
          /\ "merge_branch" \in Ops(calls)
          /\ \A i \in DeleteCalls(calls) :
                \E j \in 1..(i-1) : calls[j][1] = "merge_branch"
C6_Witness ==
    /\ FlowSucceeded
    /\ invoked = <<T_write, T_audit, T_publish, Hook>>
    /\ DeleteCalls(calls) # {}

\* C7: when the requested branch already exists, source_to_iceberg_table
\* fails before create_branch, create_table and import_data, no audit and no
\* merge run, and the catalog stays as it was: the existing branch is not
\* deleted.  The flow deletes only a branch it created.
C7_ExistingBranchUntouched ==
    /\ arg \in branches0 /\ pc # T_write =>
          /\ state[T_write] = "Failed"
          /\ Ops(calls) = {"has_branch"}
          /\ Range(invoked) \cap {T_audit, T_publish} = {}
          /\ branches = branches0
          /\ tables = tables0
    /\ DeleteCalls(calls) # {} => created
C7_Witness ==
    /\ arg \in branches0
    /\ arg # Main
    /\ FlowDone
    /\ failed = T_write

\* C8: after a run that returns normally the ingested data is in 'main';
\* the commit hook deletes the branch only when the merge took effect.
C8_CommitKeepsData ==
    /\ FlowSucceeded => tables[Main] = Ingested(nullsIn)
    /\ failed = "none" /\ DeleteCalls(calls) # {} =>
          ret[T_publish] = "ok" /\ tables[Main] = Ingested(nullsIn)

\* C9: delete_branch is called only on a branch has_branch found, at most
\* once in a run, and a hook invocation after the first one leaves the
\* catalog unchanged.
C9_Step ==
    /\ Cardinality(DeleteCalls(calls')) <= 1
    /\ \A i \in DeleteCalls(calls') \ DeleteCalls(calls) :
          calls'[i][2] \in branches
    /\ Len(hookReads') > Len(hookReads) /\ Len(hookReads) >= 1 =>
          branches' = branches /\ tables' = tables
C10_ContextHoldsArgument ==
    /\ \A t \in Tasks : state[t] # "Pending" => TxnGet(ctx, t) = arg
    /\ \A i \in 1..Len(hookReads) : hookReads[i] = arg
    /\ \A i \in DeleteCalls(calls) : calls[i][2] = arg /\ calls[i][2] # Main
    /\ Main \in branches
C10_Witness ==
    /\ FlowDone
    /\ failed = T_publish
    /\ hookReads = <<arg, arg>>
    /\ arg \notin branches
====
